---- MODULE Spec2Model ----
(***************************************************************************)
(* A model of 6unpack (src/6pack/6unpack.c): the extractor of 6pack        *)
(* archives.  The archive and the extracted files are byte sequences; the  *)
(* run of unpack_file is a state machine whose program counter follows the *)
(* main loop of the function.                                              *)
(*                                                                         *)
(* C types.  `int` is 32 bits, `unsigned long` is 64 bits (LP64).  TLC's   *)
(* integers are 32-bit, so an unsigned long that may have bit 31 or above  *)
(* set is kept as four 16-bit limbs, least significant first (type UL);    *)
(* the driver's variables hold the numeric value (all archives of Init     *)
(* keep every header field below 2^31).                                    *)
(***************************************************************************)
EXTENDS Integers, Sequences, FiniteSets, TLC

VARIABLES
  archive,              \* bytes of the archive file, or NoFile when it cannot be opened
  plan,                 \* ghost: the chunk descriptors the archive was built from
  disk,                 \* output directory: file name -> content
  disk0,                \* ghost: the directory when the current run started
  runs,                 \* number of runs of unpack_file started so far
  pc,                   \* position in unpack_file
  retval,               \* value returned by unpack_file (NoValue while running or aborted)
  in_open,              \* FILE *in is open
  in_pos,               \* stream position of in
  fsize,
  pos,
  hdrbuf,               \* the stack slot of read_chunk_header's buffer[16]
  chunk_id, chunk_options, chunk_size, chunk_checksum, chunk_extra,
  buffer,               \* unsigned char buffer[BLOCK_SIZE]
  checksum,
  decompressed_size,    \* an unsigned long, as limbs
  total_extracted,
  output_file,          \* the name (a C string) or NULL
  f,                    \* the open output file (its name) or NULL
  compressed_buffer, decompressed_buffer,
  compressed_bufsize, decompressed_bufsize,
  remaining,
  hist,                 \* ghost: what the last step did
  dropped,              \* ghost: the outputs abandoned in this run
  prev,                 \* ghost: how the previous run ended (NoValue: none, 1: abort)
  probe                 \* state of the function-level specifications

vars == <<archive, plan, disk, disk0, runs, pc, retval, in_open, in_pos, fsize, pos,
          hdrbuf, chunk_id, chunk_options, chunk_size, chunk_checksum, chunk_extra,
          buffer, checksum, decompressed_size, total_extracted, output_file, f,
          compressed_buffer, decompressed_buffer, compressed_bufsize,
          decompressed_bufsize, remaining, hist, dropped, prev, probe>>

(***************************************************************************)
(* Bounds of the model.                                                    *)
(***************************************************************************)
\* The compile-time parameter BLOCK_SIZE (65536 unless overridden), scaled down.
BLOCK_SIZE == 12
\* Number of chunk records of an archive.
MaxChunks == 2
\* Number of runs of unpack_file over the same directory.
MaxRuns == 2

(***************************************************************************)
(* Program constants.                                                      *)
(***************************************************************************)
ADLER32_BASE == 65521
\* Bytes summed between two reductions in update_adler32.
\* Mutant: one more byte between two reductions.
ADLER32_NMAX_over == 5552 + 1

ADLER32_NMAX == 5552

\* The null pointer: no array of bytes.
NULL == <<-2>>
\* An archive path that cannot be opened.
NoFile == <<-3>>
\* An integer variable that holds no value yet.
NoValue == -99
\* A byte of memory that was never written.
UNINIT == -1
\* Values an unwritten byte is read as.
GarbageBytes == {0, 127}

sixpack_magic == <<137, 54, 80, 75, 13, 10, 26, 10>>

Min(a, b) == IF a < b THEN a ELSE b

(***************************************************************************)
(* stdio on byte sequences.                                                *)
(***************************************************************************)
\* fread(buf, 1, n, stream) at position p: the bytes delivered.
fread(stream, p, n) ==
  IF p >= Len(stream) \/ n <= 0 THEN <<>>
  ELSE SubSeq(stream, p + 1, Min(p + n, Len(stream)))

\* The content of a buffer after `got` was stored at its start.
Store(buf, got) == got \o SubSeq(buf, Len(got) + 1, Len(buf))

\* A buffer as the program reads it: unwritten bytes read as g.
Materialize(buf, g) ==
  SubSeq([i \in 1..Len(buf) |-> IF buf[i] = UNINIT THEN g ELSE buf[i]], 1, Len(buf))

HasUninit(buf, n) == \E i \in 1..Min(n, Len(buf)) : buf[i] = UNINIT

Fill(n, b) == SubSeq([i \in 1..n |-> b], 1, n)

\* The C string held in a char array: the bytes before the first NUL.
RECURSIVE CString(_)
CString(s) ==
  IF s = <<>> \/ Head(s) = 0 THEN <<>> ELSE <<Head(s)>> \o CString(Tail(s))

(***************************************************************************)
(* unsigned long as limbs.                                                 *)
(***************************************************************************)
ULZero == <<0, 0, 0, 0>>

\* Conversion of an int to unsigned long (sign extension).
ULFromInt(v) ==
  <<v % 65536, (v \div 65536) % 65536,
    IF v < 0 THEN 65535 ELSE 0, IF v < 0 THEN 65535 ELSE 0>>

\* Mutant: the value is not masked to 32 bits.
Mask32_none(u) == u

\* x & 0xffffffff
Mask32(u) == <<u[1], u[2], 0, 0>>

\* x & 0xffff
Mask16(u) == <<u[1], 0, 0, 0>>

\* The number an unsigned long below 2^31 stands for.
ULVal(u) == u[1] + 65536 * u[2]

(***************************************************************************)
(* update_adler32                                                          *)
(***************************************************************************)
\* Mutant: s2 is advanced by s1 before the byte is added to s1.
AdlerStep_stale(s, b) == <<s[1] + b, s[2] + s[1]>>

\* s1 += *ptr++; s2 += s1; on the pair s = <<s1, s2>>.
AdlerStep(s, b) == <<s[1] + b, s[2] + s[1] + b>>

\* One pass of the unrolled loop: eight bytes from index i on.
AdlerStep8(s, buf, i) ==
  CHOOSE r \in
    {AdlerStep(s7, buf[i + 7]) : s7 \in
      {AdlerStep(s6, buf[i + 6]) : s6 \in
        {AdlerStep(s5, buf[i + 5]) : s5 \in
          {AdlerStep(s4, buf[i + 4]) : s4 \in
            {AdlerStep(s3, buf[i + 3]) : s3 \in
              {AdlerStep(s2, buf[i + 2]) : s2 \in
                {AdlerStep(s1, buf[i + 1]) : s1 \in
                  {AdlerStep(s0, buf[i]) : s0 \in {s}}}}}}}}} : TRUE

\* The two inner loops: k bytes from index i on are added to s1, s1 to s2, eight at
\* a time while k >= 8 and then one at a time.
RECURSIVE AdlerAdd(_, _, _, _, _)
AdlerAdd(s1, s2, buf, i, k) ==
  IF k >= 8
  THEN CHOOSE r \in {AdlerAdd(s[1], s[2], buf, i + 8, k - 8) :
                       s \in {AdlerStep8(<<s1, s2>>, buf, i)}} : TRUE
  ELSE IF k > 0
  THEN CHOOSE r \in {AdlerAdd(s[1], s[2], buf, i + 1, k - 1) :
                       s \in {AdlerStep(<<s1, s2>>, buf[i])}} : TRUE
  ELSE <<s1, s2>>

\* The outer loop: at most ADLER32_NMAX bytes, then both sums are reduced.
RECURSIVE AdlerLoop(_, _, _, _, _)
AdlerLoop(s1, s2, buf, i, len) ==
  IF len > 0
  THEN LET k == IF len < ADLER32_NMAX THEN len ELSE ADLER32_NMAX
           s == AdlerAdd(s1, s2, buf, i, k)
       IN  AdlerLoop(s[1] % ADLER32_BASE, s[2] % ADLER32_BASE, buf, i + k, len - k)
  ELSE <<s1, s2>>

\* update_adler32 on unsigned long values, as limbs: s1 and s2 are the two low
\* 16-bit fields of the checksum, the result is (s2 << 16) + s1.
update_adler32UL(cks, buf, len) ==
  CHOOSE r \in {<<s[1] % 65536,
                  (s[2] + s[1] \div 65536) % 65536,
                  ((s[2] + s[1] \div 65536) \div 65536) % 65536,
                  0>> : s \in {AdlerLoop(cks[1], cks[2], buf, 1, len)}} : TRUE

\* update_adler32 on the checksums of the driver, which stay below 2^31.
update_adler32(cks, buf, len) == ULVal(update_adler32UL(ULFromInt(cks), buf, len))

(***************************************************************************)
(* detect_magic                                                            *)
(***************************************************************************)
SEEK_SET == 0

\* fseek(stream, offset, whence): the new position.
fseek(len, cur, offset, whence) ==
  IF whence = 0 THEN offset ELSE IF whence = 1 THEN cur + offset ELSE len + offset

\* Mutant: the stream is not rewound after the read.
detect_magic_norewind(stream, p) ==
  LET p1  == fseek(Len(stream), p, SEEK_SET, 0)
      got == fread(stream, p1, 8)
  IN  [ret |-> IF Len(got) < 8 THEN 0
               ELSE IF \E c \in 1..8 : got[c] # sixpack_magic[c] THEN 0
               ELSE -1,
       pos |-> p1 + Len(got)]

\* The return value and the stream position detect_magic leaves.
detect_magic(stream, p) ==
  LET p1  == fseek(Len(stream), p, SEEK_SET, 0)
      got == fread(stream, p1, 8)
      p2  == p1 + Len(got)
      p3  == fseek(Len(stream), p2, SEEK_SET, 0)
  IN  [ret |-> IF Len(got) < 8 THEN 0
               ELSE IF \E c \in 1..8 : got[c] # sixpack_magic[c] THEN 0
               ELSE -1,
       pos |-> p3]

(***************************************************************************)
(* readU16, readU32, read_chunk_header                                     *)
(***************************************************************************)
\* b << 24 in int arithmetic (two's complement wrap-around).
Shl24(b) == IF b >= 128 THEN (b - 256) * 16777216 ELSE b * 16777216

\* ptr is the array from the pointed byte on.
readU16(ptr) == ULFromInt(ptr[1] + ptr[2] * 256)

readU32(ptr) == ULFromInt(ptr[1] + ptr[2] * 256 + ptr[3] * 65536 + Shl24(ptr[4]))

From(buf, off) == SubSeq(buf, off + 1, Len(buf))

\* stack is the content of buffer[16] on entry, g what its unwritten bytes read as;
\* got is what fread delivers and b the buffer it leaves.
read_chunk_header(stream, p, stack, g) ==
  CHOOSE h \in {
      [id       |-> ULVal(Mask16(readU16(b))),
       options  |-> ULVal(Mask16(readU16(From(b, 2)))),
       size     |-> Mask32(readU32(From(b, 4))),
       checksum |-> Mask32(readU32(From(b, 8))),
       extra    |-> Mask32(readU32(From(b, 12))),
       pos      |-> p + Len(got),
       stack    |-> b,
       short    |-> Len(got) < 16] :
      got \in {fread(stream, p, 16)},
      b \in {Materialize(Store(stack, fread(stream, p, 16)), g)}} : TRUE

(***************************************************************************)
(* The external decompression primitive (fastlz_decompress): an outcome is *)
(* the value returned and the bytes stored in the output buffer.  Only its *)
(* contract is known: it returns the decompressed length or an error code  *)
(* and stores at most maxout bytes.                                        *)
(***************************************************************************)
\* Stands for the i-th byte the primitive produces from the input.
DecodedByte(input, i) == (input[((i - 1) % Len(input)) + 1] + 100 + i) % 256

\* ret < 0 is an error code; "crash" is a store through a null pointer.
fastlz_decompress(input, length, output, maxout) ==
  LET lens == IF length = 0 THEN {0} ELSE {0, maxout} \cup (IF maxout > 1 THEN {maxout - 1} ELSE {})
      good == {[ret |-> n, out |-> SubSeq([i \in 1..n |-> DecodedByte(input, i)], 1, n), crash |-> FALSE] :
                n \in lens}
      bad  == {[ret |-> -1, out |-> <<>>, crash |-> FALSE]}
  IN  IF output = NULL /\ maxout > 0
      THEN bad \cup {[ret |-> 0, out |-> <<>>, crash |-> TRUE]}
      ELSE good \cup bad

(***************************************************************************)
(* Archives: the 6pack container format, and the chunks Init builds        *)
(* archives from.                                                          *)
(***************************************************************************)
Le16(n) == <<n % 256, (n \div 256) % 256>>

Le32(n) == <<n % 256, (n \div 256) % 256, (n \div 65536) % 256, (n \div 16777216) % 256>>

HeaderBytes(id, options, size, cks, extra) ==
  Le16(id) \o Le16(options) \o Le32(size) \o Le32(cks) \o Le32(extra)

\* Payload of a file entry: size (64 bits), name length, name.
EntryPayload(dsize, name_length, name) ==
  Le32(dsize) \o <<0, 0, 0, 0>> \o Le16(name_length) \o name

Adler(bytes) == update_adler32(1, bytes, Len(bytes))

\* n payload bytes, all different from their neighbours.
Data(n) == SubSeq([i \in 1..n |-> 2 + (i % 5)], 1, n)

NameA == <<97>>
NameB == <<98>>

\* A chunk record: the header fields and the payload bytes present in the stream.
Chunk(id, options, size, cks, extra, payload) ==
  [id |-> id, options |-> options, size |-> size, checksum |-> cks, extra |-> extra,
   payload |-> payload, raw |-> FALSE]

\* Trailing bytes that are no chunk record.
Raw(bytes) ==
  [id |-> 0, options |-> 0, size |-> 0, checksum |-> 0, extra |-> 0,
   payload |-> bytes, raw |-> TRUE]

Entry(payload, good) ==
  Chunk(1, 0, Len(payload), IF good THEN Adler(payload) ELSE Adler(payload) + 1, 0, payload)

Stored(payload, good) ==
  Chunk(17, 0, Len(payload), IF good THEN Adler(payload) ELSE Adler(payload) + 1,
        Len(payload), payload)

Compressed(payload, extra, good) ==
  Chunk(17, 1, Len(payload), IF good THEN Adler(payload) ELSE Adler(payload) + 1,
        extra, payload)

EntryKinds == {"Ea", "Eb", "Ebad", "Ez", "Ee", "El", "Ebig", "Es", "Et"}
DataKinds ==
  {"S2", "S0", "Sm", "Sp", "Sbad", "St", "C2", "C3", "Cbad", "C0", "C0bad", "Ce0", "Ct", "U"}
OtherKinds == {"X", "T1", "T17"}
Kinds == EntryKinds \cup DataKinds \cup OtherKinds

Desc(k) ==
  CASE k = "Ea"   -> Entry(EntryPayload(5, 1, NameA), TRUE)
    [] k = "Eb"   -> Entry(EntryPayload(5, 1, NameB), TRUE)
    [] k = "Ebad" -> Entry(EntryPayload(5, 1, NameB), FALSE)
    [] k = "Ez"   -> Entry(EntryPayload(0, 1, NameB), TRUE)
    [] k = "Ee"   -> Entry(EntryPayload(5, 0, <<99>>), TRUE)
    [] k = "El"   -> Entry(EntryPayload(5, 9, NameB), TRUE)
    [] k = "Ebig" -> Entry(EntryPayload(5, 1, NameB) \o Data(BLOCK_SIZE - 11), TRUE)
    [] k = "Es"   -> Entry(EntryPayload(5, 0, <<>>), TRUE)
    [] k = "Et"   -> [Entry(EntryPayload(5, 1, NameA), TRUE) EXCEPT !.payload = <<5, 0, 0>>]
    [] k = "S2"   -> Stored(Data(2), TRUE)
    [] k = "S0"   -> Stored(<<>>, TRUE)
    [] k = "Sm"   -> Stored(Data(BLOCK_SIZE - 1), TRUE)
    [] k = "Sp"   -> Stored(Data(BLOCK_SIZE + 1), TRUE)
    [] k = "Sbad" -> Stored(Data(3), FALSE)
    [] k = "St"   -> [Stored(Data(4), TRUE) EXCEPT !.payload = Data(2)]
    [] k = "C2"   -> Compressed(Data(2), 2, TRUE)
    [] k = "C3"   -> Compressed(<<7, 8, 9>>, 1, TRUE)
    [] k = "Cbad" -> Compressed(Data(2), 2, FALSE)
    [] k = "C0"   -> Compressed(<<>>, 0, TRUE)
    [] k = "C0bad" -> Compressed(<<>>, 0, FALSE)
    [] k = "Ce0"  -> Compressed(Data(2), 0, TRUE)
    [] k = "Ct"   -> [Compressed(<<7, 8, 9>>, 1, TRUE) EXCEPT !.payload = <<7>>]
    [] k = "U"    -> Chunk(17, 2, 1, Adler(<<4>>), 1, <<4>>)
    [] k = "X"    -> Chunk(5, 0, 1, Adler(<<4>>), 0, <<4>>)
    [] k = "Sent" -> Stored(EntryPayload(5, 1, NameB), TRUE)
    [] k = "Etb"  -> [Entry(EntryPayload(5, 1, NameB), TRUE) EXCEPT !.payload = <<>>]
    [] k = "T1"   -> Raw(<<1>>)
    [] k = "T17"  -> Raw(<<17, 0, 0>>)

ChunkBytes(c) ==
  IF c.raw THEN c.payload
  ELSE HeaderBytes(c.id, c.options, c.size, c.checksum, c.extra) \o c.payload

RECURSIVE PlanBytes(_)
PlanBytes(p) == IF p = <<>> THEN <<>> ELSE ChunkBytes(Desc(Head(p))) \o PlanBytes(Tail(p))

ArchiveOf(p) == sixpack_magic \o PlanBytes(p)

\* Chunks whose payload is cut short, and trailing bytes: the archive ends there.
LastKinds == {"Et", "St", "Ct", "T1", "T17"}

Aligned(p) == \A i \in 1..(Len(p) - 1) : p[i] \notin LastKinds

\* Every archive of at most MaxChunks chunks.
FreePlans == {p \in UNION {[1..n -> Kinds] : n \in 0..MaxChunks} : Aligned(p)}

\* One file with two data chunks.
OneFilePlans ==
  {<<e, d1, d2>> : e \in {"Ea"}, d1 \in DataKinds \ LastKinds, d2 \in DataKinds}

\* Two files: the first with one data chunk, then a second entry and its data.
TwoFilePlans ==
  {<<"Ea", d1, e, d2>> :
     d1 \in DataKinds \ LastKinds, e \in EntryKinds \ LastKinds, d2 \in {"S2", "C2"}}

\* A stored chunk whose payload is a file entry, then an entry chunk cut off after
\* its header.
CutPlans == {<<e, "Sent", "Etb">> : e \in {"Ea", "Eb"}}

Plans == FreePlans \cup OneFilePlans \cup TwoFilePlans \cup CutPlans

\* Streams that are no archive: too short, or a byte of the signature differs.
BadMagic ==
  {SubSeq(sixpack_magic, 1, n) : n \in 0..7}
    \cup {[sixpack_magic EXCEPT ![i] = 0] \o PlanBytes(<<"Ea", "S2">>) : i \in 1..8}

FileNames == {NameA, NameB}

\* A directory entry: whether the file is there, and its content.
Absent == [there |-> FALSE, data |-> <<>>]
File(data) == [there |-> TRUE, data |-> data]

Disks == {[n \in FileNames |-> Absent],
          [n \in FileNames |-> IF n = NameA THEN File(<<9>>) ELSE Absent]}

\* fopen(name, "rb") succeeds.
Exists(d, name) == name \in DOMAIN d /\ d[name].there

\* fopen(name, "wb") succeeds: the empty path names no file.
Creatable(name) == name # <<>>

\* The directory after fopen(name, "wb"): the file is created or truncated.
Create(d, name) ==
  [n \in DOMAIN d \cup {name} |-> IF n = name THEN File(<<>>) ELSE d[n]]

\* The directory after fwrite(bytes, 1, Len(bytes), file).
Write(d, file, bytes) == [d EXCEPT ![file] = File(d[file].data \o bytes)]

(***************************************************************************)
(* unpack_file                                                             *)
(***************************************************************************)
\* The locals of unpack_file before any of them is assigned.
Fresh ==
  /\ retval = NoValue
  /\ in_open = FALSE
  /\ in_pos = 0
  /\ fsize = NoValue
  /\ pos = NoValue
  /\ hdrbuf = Fill(16, UNINIT)
  /\ chunk_id = NoValue
  /\ chunk_options = NoValue
  /\ chunk_size = NoValue
  /\ chunk_checksum = NoValue
  /\ chunk_extra = NoValue
  /\ buffer = Fill(BLOCK_SIZE, UNINIT)
  /\ checksum = NoValue
  /\ decompressed_size = ULZero
  /\ total_extracted = NoValue
  /\ output_file = NULL
  /\ f = NULL
  /\ compressed_buffer = NULL
  /\ decompressed_buffer = NULL
  /\ compressed_bufsize = NoValue
  /\ decompressed_bufsize = NoValue
  /\ remaining = NoValue
  /\ hist = "start"
  /\ dropped = {}

Init ==
  /\ \/ \E p \in Plans : plan = p /\ archive = ArchiveOf(p)
     \/ plan = <<"?">> /\ archive \in BadMagic \cup {NoFile}
  /\ disk \in Disks
  /\ disk0 = disk
  /\ runs = 1
  /\ pc = "start"
  /\ prev = NoValue
  /\ probe = <<>>
  /\ Fresh

ghosts == <<archive, plan, disk0, runs, prev, probe>>
header == <<pos, hdrbuf, chunk_id, chunk_options, chunk_size, chunk_checksum, chunk_extra>>
session == <<decompressed_size, total_extracted, output_file, f>>
buffers == <<compressed_buffer, decompressed_buffer, compressed_bufsize,
             decompressed_bufsize>>

\* fopen of the archive, its size, and the rewind.
OpenArchive ==
  /\ pc = "start"
  /\ IF archive = NoFile
     THEN /\ retval' = -1
          /\ pc' = "returned"
          /\ hist' = "no_archive"
          /\ UNCHANGED <<in_open, in_pos, fsize>>
     ELSE /\ in_open' = TRUE
          /\ fsize' = fseek(Len(archive), 0, 0, 2)
          /\ in_pos' = fseek(Len(archive), Len(archive), 0, SEEK_SET)
          /\ pc' = "magic"
          /\ hist' = "opened"
          /\ UNCHANGED retval
  /\ UNCHANGED <<ghosts, disk, header, buffer, checksum, session, buffers, remaining>>
  /\ UNCHANGED dropped

\* The signature check, the seek to the first chunk and the initialisations.
CheckMagic ==
  /\ pc = "magic"
  /\ LET d == detect_magic(archive, in_pos)
     IN  IF d.ret = 0
         THEN /\ in_open' = FALSE
              /\ in_pos' = d.pos
              /\ retval' = -1
              /\ pc' = "returned"
              /\ hist' = "bad_magic"
              /\ UNCHANGED <<session, buffers>>
         ELSE /\ in_pos' = fseek(Len(archive), d.pos, 8, SEEK_SET)
              /\ output_file' = NULL
              /\ f' = NULL
              /\ total_extracted' = 0
              /\ decompressed_size' = ULZero
              /\ compressed_buffer' = NULL
              /\ decompressed_buffer' = NULL
              /\ compressed_bufsize' = 0
              /\ decompressed_bufsize' = 0
              /\ pc' = "loop"
              /\ hist' = "magic"
              /\ UNCHANGED <<in_open, retval>>
  /\ UNCHANGED <<ghosts, disk, fsize, header, buffer, checksum, remaining>>
  /\ UNCHANGED dropped

\* The end-of-file test succeeds: the loop is left, everything is released.
Finish ==
  /\ pc = "loop"
  /\ in_pos >= fsize
  /\ pos' = in_pos
  /\ compressed_buffer' = NULL
  /\ decompressed_buffer' = NULL
  /\ output_file' = NULL
  /\ f' = NULL
  /\ in_open' = FALSE
  /\ retval' = 0
  /\ pc' = "returned"
  /\ hist' = "finish"
  /\ UNCHANGED <<ghosts, disk, in_pos, fsize, hdrbuf, chunk_id, chunk_options, chunk_size,
                 chunk_checksum, chunk_extra, buffer, checksum, decompressed_size,
                 total_extracted, compressed_bufsize, decompressed_bufsize, remaining>>
  /\ UNCHANGED dropped

\* What buffer[16] of read_chunk_header holds on entry: what the last call left
\* there, or memory never written.
HeaderStacks == {hdrbuf, Fill(16, UNINIT)}

\* The end-of-file test fails: the next chunk header is read.
ReadHeader ==
  /\ pc = "loop"
  /\ in_pos < fsize
  /\ \E stack \in (IF in_pos + 16 > fsize THEN HeaderStacks ELSE {hdrbuf}) :
       \E g \in (IF HasUninit(Store(stack, fread(archive, in_pos, 16)), 16)
                 THEN GarbageBytes ELSE {0}) :
         \E h \in {read_chunk_header(archive, in_pos, stack, g)} :
             /\ pos' = in_pos
             /\ chunk_id' = h.id
             /\ chunk_options' = h.options
             /\ chunk_size' = ULVal(h.size)
             /\ chunk_checksum' = ULVal(h.checksum)
             /\ chunk_extra' = ULVal(h.extra)
             /\ hdrbuf' = h.stack
             /\ in_pos' = h.pos
             /\ hist' = IF h.short THEN "short_header" ELSE "header"
  /\ pc' = "dispatch"
  /\ UNCHANGED <<ghosts, disk, retval, in_open, fsize, buffer, checksum, session, buffers,
                 remaining>>
  /\ UNCHANGED dropped

\* checksum != chunk_checksum does not hold.
ChecksumOk(cks) == cks = chunk_checksum

\* Mutant: no seek, the stream stays where the reads of the chunk left it.
NextChunkPos_noseek == in_pos

\* Mutant: the seek goes back to the header of the chunk.
NextChunkPos_rewind == pos

\* fseek(in, pos + 16 + chunk_size, SEEK_SET): the position of the next chunk.
NextChunkPos == fseek(Len(archive), in_pos, pos + 16 + chunk_size, SEEK_SET)

IsFileEntry == chunk_id = 1 /\ chunk_size > 10 /\ chunk_size < BLOCK_SIZE

\* Mutant: data chunks are accepted whatever the declared size of the file.
IsFileData_anysize == chunk_id = 17 /\ f # NULL /\ output_file # NULL

IsFileData ==
  chunk_id = 17 /\ f # NULL /\ output_file # NULL /\ decompressed_size # ULZero

\* The file entry of the chunk in buffer b: the decompressed size and the name.
\* name_length is an int; it is clamped to the bytes of the chunk after offset 10.
EntrySize(b) == readU32(b)

\* Mutant: the clamp leaves one byte too many.
EntryNameLength_offbyone(b, size) ==
  LET name_length == ULVal(readU16(From(b, 8)))
  IN  IF name_length > size - 9 THEN size - 9 ELSE name_length

EntryNameLength(b, size) ==
  LET name_length == ULVal(readU16(From(b, 8)))
  IN  IF name_length > size - 10 THEN size - 10 ELSE name_length

\* output_file after the copy loop: name_length bytes and a terminating NUL.
EntryName(b, size) == CString(SubSeq(b, 11, 10 + EntryNameLength(b, size)))

\* The outcomes of the file-entry branch: got is what fread delivered, b the buffer
\* it left and cks its checksum.  The previous output is closed first.
FileEntryOutcomes(got, b, cks) ==
  IF ~ChecksumOk(cks)
  THEN {[disk |-> disk, decompressed_size |-> decompressed_size,
         total_extracted |-> total_extracted, output_file |-> NULL, f |-> NULL,
         in_open |-> FALSE, retval |-> -1, in_pos |-> in_pos + Len(got),
         pc |-> "returned", hist |-> "entry_fatal"]}
  ELSE {[disk |-> disk, decompressed_size |-> EntrySize(b), total_extracted |-> 0,
         output_file |-> NULL, f |-> NULL, in_open |-> TRUE, retval |-> NoValue,
         in_pos |-> in_pos + Len(got), pc |-> "aborted", hist |-> "entry_oom"]}
       \cup
       {[disk |-> IF ~Exists(disk, name) /\ Creatable(name) THEN Create(disk, name)
                  ELSE disk,
         decompressed_size |-> EntrySize(b), total_extracted |-> 0,
         output_file |-> IF ~Exists(disk, name) /\ Creatable(name) THEN name ELSE NULL,
         f |-> IF ~Exists(disk, name) /\ Creatable(name) THEN name ELSE NULL,
         in_open |-> TRUE, retval |-> NoValue, in_pos |-> NextChunkPos, pc |-> "loop",
         hist |-> IF Exists(disk, name) THEN "entry_exists"
                  ELSE IF Creatable(name) THEN "entry_created" ELSE "entry_nocreate"] :
        name \in {EntryName(b, chunk_size)}}

\* id 1 with 10 < size < BLOCK_SIZE: a file entry.  Bytes of the buffer that were
\* never written are read as g.
FileEntry ==
  /\ pc = "dispatch"
  /\ IsFileEntry
  /\ \E got \in {fread(archive, in_pos, chunk_size)} :
     \E g \in (IF HasUninit(Store(buffer, got), chunk_size) THEN GarbageBytes ELSE {0}) :
     \E b \in {Materialize(Store(buffer, got), g)} :
     \E cks \in {update_adler32(1, b, chunk_size)} :
     \E r \in FileEntryOutcomes(got, b, cks) :
       /\ disk' = r.disk
       /\ buffer' = b
       /\ checksum' = cks
       /\ decompressed_size' = r.decompressed_size
       /\ total_extracted' = r.total_extracted
       /\ output_file' = r.output_file
       /\ f' = r.f
       /\ in_open' = r.in_open
       /\ retval' = r.retval
       /\ in_pos' = r.in_pos
       /\ pc' = r.pc
       /\ hist' = r.hist
  /\ UNCHANGED <<ghosts, fsize, header, buffers, remaining>>
  /\ UNCHANGED dropped

\* A chunk that is neither a file entry nor data of the open file: only the seek.
Ignored ==
  /\ pc = "dispatch"
  /\ ~IsFileEntry
  /\ ~IsFileData
  /\ in_pos' = NextChunkPos
  /\ pc' = "loop"
  /\ hist' = "ignored"
  /\ UNCHANGED <<ghosts, disk, retval, in_open, fsize, header, buffer, checksum, session,
                 buffers, remaining>>
  /\ UNCHANGED dropped

\* case 0: the start of the copy of a stored chunk.
StoredBegin ==
  /\ pc = "dispatch"
  /\ IsFileData
  /\ chunk_options = 0
  /\ total_extracted' = total_extracted + chunk_size
  /\ remaining' = chunk_size
  /\ checksum' = 1
  /\ pc' = "copy"
  /\ hist' = "stored_begin"
  /\ UNCHANGED <<ghosts, disk, retval, in_open, in_pos, fsize, header, buffer,
                 decompressed_size, output_file, f, buffers>>
  /\ UNCHANGED dropped

\* Mutant: the read is not bounded by the bytes that remain of the chunk.
StoredBlock_unbounded == fread(archive, in_pos, BLOCK_SIZE)

\* The block read by one iteration of the copy loop.
StoredBlock ==
  fread(archive, in_pos, IF BLOCK_SIZE < remaining THEN BLOCK_SIZE ELSE remaining)

\* One iteration of the copy loop that reads bytes: they are written and summed.
StoredRead ==
  /\ pc = "copy"
  /\ StoredBlock # <<>>
  /\ LET got == StoredBlock
     IN  /\ buffer' = Store(buffer, got)
         /\ disk' = Write(disk, f, got)
         /\ checksum' = update_adler32(checksum, got, Len(got))
         /\ remaining' = remaining - Len(got)
         /\ in_pos' = in_pos + Len(got)
  /\ hist' = "stored_read"
  /\ UNCHANGED <<ghosts, retval, in_open, fsize, header, session, buffers, pc>>
  /\ UNCHANGED dropped

\* The read that returns nothing ends the loop; the checksum is verified.
StoredEnd ==
  /\ pc = "copy"
  /\ StoredBlock = <<>>
  /\ IF ~ChecksumOk(checksum)
     THEN f' = NULL /\ output_file' = NULL /\ hist' = "stored_bad"
          /\ dropped' = dropped \cup {f}
     ELSE UNCHANGED <<f, output_file, dropped>> /\ hist' = "stored_ok"
  /\ in_pos' = NextChunkPos
  /\ pc' = "loop"
  /\ UNCHANGED <<ghosts, disk, retval, in_open, fsize, header, buffer, checksum,
                 decompressed_size, total_extracted, buffers, remaining>>

\* default: an unknown compression method closes the output.
UnknownMethod ==
  /\ pc = "dispatch"
  /\ IsFileData
  /\ chunk_options \notin {0, 1}
  /\ f' = NULL
  /\ output_file' = NULL
  /\ dropped' = dropped \cup {f}
  /\ in_pos' = NextChunkPos
  /\ pc' = "loop"
  /\ hist' = "unknown"
  /\ UNCHANGED <<ghosts, disk, retval, in_open, fsize, header, buffer, checksum,
                 decompressed_size, total_extracted, buffers, remaining>>

\* The buffer after "enlarge if necessary": kept, or a new allocation of exactly
\* `need` bytes, or NULL when malloc fails.
Enlarged(buf, bufsize, need) ==
  IF need > bufsize THEN {Fill(need, UNINIT), NULL} ELSE {buf}

\* Mutant: the capacity follows every chunk, also a smaller one.
EnlargedSize_always(bufsize, need) == need

\* compressed_bufsize, decompressed_bufsize after "enlarge if necessary".
EnlargedSize(bufsize, need) == IF need > bufsize THEN need ELSE bufsize

\* case 1, from the read of the payload on: got is what fread delivered, b the
\* compressed buffer it left, cks its checksum, db the decompressed buffer.
CompressedOutcomes(got, b, cks, db) ==
  IF ~ChecksumOk(cks)
  THEN {[disk |-> disk, remaining |-> remaining, f |-> NULL, output_file |-> NULL,
         decompressed_buffer |-> db, in_pos |-> NextChunkPos, pc |-> "loop",
         hist |-> "comp_bad"]}
  ELSE {IF o.crash
        THEN [disk |-> disk, remaining |-> remaining, f |-> f,
              output_file |-> output_file, decompressed_buffer |-> db,
              in_pos |-> in_pos + Len(got), pc |-> "aborted", hist |-> "comp_crash"]
        ELSE IF o.ret # chunk_extra
        THEN [disk |-> disk, remaining |-> o.ret, f |-> NULL, output_file |-> NULL,
              decompressed_buffer |-> IF db = NULL THEN NULL ELSE Store(db, o.out),
              in_pos |-> NextChunkPos, pc |-> "loop", hist |-> "comp_mismatch"]
        ELSE IF db = NULL
        THEN [disk |-> disk, remaining |-> o.ret, f |-> f, output_file |-> output_file,
              decompressed_buffer |-> db, in_pos |-> in_pos + Len(got),
              pc |-> "aborted", hist |-> "comp_abort_out"]
        ELSE [disk |-> Write(disk, f, SubSeq(Store(db, o.out), 1, chunk_extra)),
              remaining |-> o.ret, f |-> f, output_file |-> output_file,
              decompressed_buffer |-> Store(db, o.out), in_pos |-> NextChunkPos,
              pc |-> "loop", hist |-> "comp_ok"] :
        o \in fastlz_decompress(b, chunk_size, db, chunk_extra)}

\* case 1: a chunk compressed with FastLZ.  cb and db are the two buffers after
\* "enlarge if necessary"; without a compressed buffer the process aborts.
Compressed1 ==
  /\ pc = "dispatch"
  /\ IsFileData
  /\ chunk_options = 1
  /\ compressed_bufsize' = EnlargedSize(compressed_bufsize, chunk_size)
  /\ decompressed_bufsize' = EnlargedSize(decompressed_bufsize, chunk_extra)
  /\ \E cb \in Enlarged(compressed_buffer, compressed_bufsize, chunk_size) :
     \E db \in Enlarged(decompressed_buffer, decompressed_bufsize, chunk_extra) :
       IF cb = NULL
       THEN /\ pc' = "aborted"
            /\ hist' = "comp_abort_in"
            /\ compressed_buffer' = cb
            /\ decompressed_buffer' = db
            /\ UNCHANGED <<disk, checksum, remaining, total_extracted, output_file, f,
                           dropped, in_pos>>
       ELSE \E got \in {fread(archive, in_pos, chunk_size)} :
            \E g \in (IF HasUninit(Store(cb, got), chunk_size) THEN GarbageBytes
                      ELSE {0}) :
            \E b \in {Materialize(Store(cb, got), g)} :
            \E cks \in {update_adler32(1, b, chunk_size)} :
            \E r \in CompressedOutcomes(got, b, cks, db) :
              /\ disk' = r.disk
              /\ checksum' = cks
              /\ remaining' = r.remaining
              /\ total_extracted' = total_extracted + chunk_extra
              /\ output_file' = r.output_file
              /\ f' = r.f
              /\ dropped' = IF r.f = NULL THEN dropped \cup {f} ELSE dropped
              /\ compressed_buffer' = b
              /\ decompressed_buffer' = r.decompressed_buffer
              /\ in_pos' = r.in_pos
              /\ pc' = r.pc
              /\ hist' = r.hist
  /\ UNCHANGED <<ghosts, retval, in_open, fsize, header, buffer, decompressed_size>>

\* unpack_file is run again on the same archive and directory.
Rerun ==
  /\ pc \in {"returned", "aborted"}
  /\ runs < MaxRuns
  /\ runs' = runs + 1
  /\ disk0' = disk
  /\ pc' = "start"
  /\ retval' = NoValue
  /\ in_open' = FALSE
  /\ in_pos' = 0
  /\ fsize' = NoValue
  /\ pos' = NoValue
  /\ hdrbuf' = Fill(16, UNINIT)
  /\ chunk_id' = NoValue
  /\ chunk_options' = NoValue
  /\ chunk_size' = NoValue
  /\ chunk_checksum' = NoValue
  /\ chunk_extra' = NoValue
  /\ buffer' = Fill(BLOCK_SIZE, UNINIT)
  /\ checksum' = NoValue
  /\ decompressed_size' = ULZero
  /\ total_extracted' = NoValue
  /\ output_file' = NULL
  /\ f' = NULL
  /\ compressed_buffer' = NULL
  /\ decompressed_buffer' = NULL
  /\ compressed_bufsize' = NoValue
  /\ decompressed_bufsize' = NoValue
  /\ remaining' = NoValue
  /\ hist' = "start"
  /\ dropped' = {}
  /\ prev' = IF pc = "returned" THEN retval ELSE 1
  /\ UNCHANGED <<archive, plan, disk, probe>>

\* The steps of one run of unpack_file.
Run ==
  \/ OpenArchive
  \/ CheckMagic
  \/ ReadHeader
  \/ FileEntry
  \/ StoredBegin
  \/ StoredRead
  \/ StoredEnd
  \/ Compressed1
  \/ UnknownMethod
  \/ Ignored
  \/ Finish

Next == Run \/ Rerun

Spec == Init /\ [][Next]_vars

\* A run that was started keeps executing: unpack_file is sequential code.
FairSpec == Spec /\ WF_vars(Run)

(***************************************************************************)
(* detect_magic alone: it is called on a stream at position p.             *)
(***************************************************************************)
\* No run of unpack_file is in progress.
Idle ==
  /\ archive = NoFile
  /\ plan = <<"?">>
  /\ disk = [n \in FileNames |-> Absent]
  /\ disk0 = disk
  /\ runs = 1
  /\ pc = "probe"
  /\ prev = NoValue
  /\ Fresh

\* The signature with one byte changed.
AlteredMagic ==
  UNION {{[sixpack_magic EXCEPT ![i] = v] :
            v \in {0, 255, (sixpack_magic[i] + 1) % 256, (sixpack_magic[i] + 128) % 256}} :
         i \in 1..8}

MagicStreams ==
  {SubSeq(sixpack_magic, 1, n) : n \in 0..7}
    \cup {m \o t : m \in {sixpack_magic} \cup AlteredMagic,
                   t \in {<<>>, <<10>>, <<1, 0>>}}

InitMagic ==
  /\ Idle
  /\ probe \in [stage : {"in"}, stream : MagicStreams, p : {0, 5}, ret : {NoValue},
                pos : {NoValue}]

CallDetectMagic ==
  /\ probe.stage = "in"
  /\ LET d == detect_magic(probe.stream, probe.p)
     IN  probe' = [probe EXCEPT !.stage = "out", !.ret = d.ret, !.pos = d.pos]
  /\ UNCHANGED <<archive, plan, disk, disk0, runs, pc, retval, in_open, in_pos, fsize,
                 header, buffer, checksum, session, buffers, remaining, hist, dropped,
                 prev>>

NextMagic == CallDetectMagic

SpecMagic == InitMagic /\ [][NextMagic]_vars

(***************************************************************************)
(* update_adler32 alone: a byte sequence is summed in one call, and in two *)
(* calls on its two parts.                                                 *)
(***************************************************************************)
\* Lengths of the inputs: the longer ones make s2, then s1, pass 65521.
AdlerLengths == {0, 1, 2, 3, 24, 300}

AdlerInputs ==
  {Fill(n, b) : n \in AdlerLengths, b \in {0, 1, 255}}
    \cup {<<1, 2, 3>>, <<255, 0, 7>>, Fill(24, 255) \o <<0, 9>>, <<200>> \o Fill(299, 255)}

InitAdler ==
  /\ Idle
  /\ \E b \in AdlerInputs : \E c \in 0..Len(b) :
       probe = [stage |-> "in", buf |-> b, cut |-> c, whole |-> ULZero,
                first |-> ULZero, second |-> ULZero]

CallUpdateAdler32 ==
  /\ probe.stage = "in"
  /\ \E a \in {SubSeq(probe.buf, 1, probe.cut)} :
     \E b \in {SubSeq(probe.buf, probe.cut + 1, Len(probe.buf))} :
     \E first \in {update_adler32UL(ULFromInt(1), a, Len(a))} :
       probe' = [probe EXCEPT
                   !.stage = "out",
                   !.whole = update_adler32UL(ULFromInt(1), probe.buf, Len(probe.buf)),
                   !.first = first,
                   !.second = update_adler32UL(first, b, Len(b))]
  /\ UNCHANGED <<archive, plan, disk, disk0, runs, pc, retval, in_open, in_pos, fsize,
                 header, buffer, checksum, session, buffers, remaining, hist, dropped,
                 prev>>

NextAdler == CallUpdateAdler32

SpecAdler == InitAdler /\ [][NextAdler]_vars

(***************************************************************************)
(* update_adler32 step by step: the accumulators between the reductions.   *)
(* s2 is kept as <<low 16 bits, the rest>>, s1 as a number.                *)
(***************************************************************************)
AdlerPatterns == {"zero", "max", "ramp"}

\* ptr[i] of the input pat.
PatByte(pat, i) ==
  CASE pat = "zero" -> 0
    [] pat = "max"  -> 255
    [] pat = "ramp" -> (i * 7 + 3) % 256

PatBuf(pat, n) == SubSeq([i \in 1..n |-> PatByte(pat, i - 1)], 1, n)

\* 1, and the largest halves a returned checksum can have.
AdlerSeeds == {ULFromInt(1), <<ADLER32_BASE - 1, ADLER32_BASE - 1, 0, 0>>}

AdlerStepLengths == {0, 7, 20, 5552, 5553, 11111}

\* s1 += *ptr++; s2 += s1;
AccStep(a, b) ==
  <<a[1] + b, (a[2] + a[1] + b) % 65536, a[3] + (a[2] + a[1] + b) \div 65536>>

RECURSIVE AccSteps(_, _, _, _)
\* n times AccStep, from ptr[i] on.
AccSteps(a, pat, i, n) ==
  IF n = 0 THEN a
  ELSE CHOOSE r \in {AccSteps(x, pat, i + 1, n - 1) : x \in {AccStep(a, PatByte(pat, i))}} :
         TRUE

\* Adler-32 as RFC 1950 defines it: both sums modulo 65521, byte by byte.
RefStep(r, b) ==
  <<(r[1] + b) % ADLER32_BASE, (r[2] + ((r[1] + b) % ADLER32_BASE)) % ADLER32_BASE>>

RECURSIVE RefSteps(_, _, _, _)
RefSteps(r, pat, i, n) ==
  IF n = 0 THEN r
  ELSE CHOOSE q \in {RefSteps(x, pat, i + 1, n - 1) : x \in {RefStep(r, PatByte(pat, i))}} :
         TRUE

\* The call update_adler32(seed, buf, n) after its declarations.
InitAdlerSteps ==
  /\ Idle
  /\ \E pat \in AdlerPatterns : \E seed \in AdlerSeeds : \E n \in AdlerStepLengths :
       probe = [stage |-> "test", pat |-> pat, seed |-> seed, n |-> n, len |-> n,
                ptr |-> 0, k |-> 0, acc |-> <<seed[1], seed[2], 0>>,
                ref |-> <<seed[1], seed[2]>>, result |-> ULZero]

AdlerFrame ==
  UNCHANGED <<archive, plan, disk, disk0, runs, pc, retval, in_open, in_pos, fsize,
              header, buffer, checksum, session, buffers, remaining, hist, dropped,
              prev>>

\* while (len > 0): k = len < 5552 ? len : 5552; len -= k;
AdlerBlock ==
  /\ probe.stage = "test"
  /\ probe.len > 0
  /\ probe' = [probe EXCEPT !.stage = "add",
                             !.k = IF probe.len < ADLER32_NMAX THEN probe.len
                                   ELSE ADLER32_NMAX,
                             !.len = probe.len - (IF probe.len < ADLER32_NMAX
                                                  THEN probe.len ELSE ADLER32_NMAX)]
  /\ AdlerFrame

\* while (k >= 8): eight bytes.
AdlerAdd8 ==
  /\ probe.stage = "add"
  /\ probe.k >= 8
  /\ probe' = [probe EXCEPT !.acc = AccSteps(probe.acc, probe.pat, probe.ptr, 8),
                             !.ref = RefSteps(probe.ref, probe.pat, probe.ptr, 8),
                             !.ptr = probe.ptr + 8,
                             !.k = probe.k - 8]
  /\ AdlerFrame

\* while (k-- > 0): one byte.
AdlerAdd1 ==
  /\ probe.stage = "add"
  /\ probe.k > 0
  /\ probe.k < 8
  /\ probe' = [probe EXCEPT !.acc = AccSteps(probe.acc, probe.pat, probe.ptr, 1),
                             !.ref = RefSteps(probe.ref, probe.pat, probe.ptr, 1),
                             !.ptr = probe.ptr + 1,
                             !.k = probe.k - 1]
  /\ AdlerFrame

\* s1 = s1 % ADLER32_BASE; s2 = s2 % ADLER32_BASE;  (65536 = 15 modulo 65521)
AdlerReduce ==
  /\ probe.stage = "add"
  /\ probe.k = 0
  /\ probe' = [probe EXCEPT !.stage = "test",
                             !.acc = <<probe.acc[1] % ADLER32_BASE,
                                       (probe.acc[3] * 15 + probe.acc[2]) % ADLER32_BASE,
                                       0>>]
  /\ AdlerFrame

\* return (s2 << 16) + s1;
AdlerReturn ==
  /\ probe.stage = "test"
  /\ probe.len = 0
  /\ probe' = [probe EXCEPT
                 !.stage = "out",
                 !.result = <<probe.acc[1] % 65536,
                              (probe.acc[2] + probe.acc[1] \div 65536) % 65536,
                              (probe.acc[3] + (probe.acc[2] + probe.acc[1] \div 65536)
                                 \div 65536) % 65536,
                              0>>]
  /\ AdlerFrame

NextAdlerSteps == AdlerBlock \/ AdlerAdd8 \/ AdlerAdd1 \/ AdlerReduce \/ AdlerReturn

SpecAdlerSteps == InitAdlerSteps /\ [][NextAdlerSteps]_vars

(***************************************************************************)
(* read_chunk_header alone: it is called on the 16 bytes of an encoded     *)
(* header.                                                                 *)
(***************************************************************************)
\* An unsigned 32-bit value as limbs, and its four bytes, least significant first.
U32(lo, hi) == <<lo, hi, 0, 0>>

Le32UL(u) == Le16(u[1]) \o Le16(u[2])

\* The 16 bytes of a chunk header.
EncodeHeader(t) ==
  Le16(t.id) \o Le16(t.options) \o Le32UL(t.size) \o Le32UL(t.checksum) \o Le32UL(t.extra)

U16Values == {0, 1, 17, 255, 256, 32768, 65535}

U32Values ==
  {U32(0, 0), U32(1, 0), U32(65535, 0), U32(0, 1), U32(65535, 32767), U32(0, 32768),
   U32(22136, 4660), U32(65535, 65535)}

Headers ==
  [id : U16Values, options : {0, 1, 65535}, size : U32Values,
   checksum : {U32(1, 0), U32(0, 32768), U32(65535, 65535)},
   extra : {U32(0, 0), U32(65535, 32767), U32(48879, 57005)}]

NoHeader ==
  [id |-> NoValue, options |-> NoValue, size |-> ULZero, checksum |-> ULZero,
   extra |-> ULZero]

InitCodec ==
  /\ Idle
  /\ probe \in [stage : {"in"}, header : Headers, decoded : {NoHeader}]

CallReadChunkHeader ==
  /\ probe.stage = "in"
  /\ LET h == read_chunk_header(EncodeHeader(probe.header), 0, Fill(16, UNINIT), 0)
     IN  probe' = [probe EXCEPT !.stage = "out",
                                !.decoded = [id |-> h.id, options |-> h.options,
                                             size |-> h.size, checksum |-> h.checksum,
                                             extra |-> h.extra]]
  /\ UNCHANGED <<archive, plan, disk, disk0, runs, pc, retval, in_open, in_pos, fsize,
                 header, buffer, checksum, session, buffers, remaining, hist, dropped,
                 prev>>

NextCodec == CallReadChunkHeader

SpecCodec == InitCodec /\ [][NextCodec]_vars

(***************************************************************************)
(* Properties.                                                             *)
(***************************************************************************)
RECURSIVE PlanPayload(_)
\* The payloads of the chunks of a plan, in stream order.
PlanPayload(p) ==
  IF p = <<>> THEN <<>> ELSE Desc(Head(p)).payload \o PlanPayload(Tail(p))

\* The archives of C1: a valid file entry followed by stored chunks with correct
\* checksums.
StoredKinds == {"S2", "S0", "Sm", "Sp"}

StoredPlan(p) ==
  /\ p \in Plans
  /\ Len(p) >= 1
  /\ p[1] \in {"Ea", "Eb"}
  /\ \A i \in 2..Len(p) : p[i] \in StoredKinds

NameOf(k) == IF k = "Ea" THEN NameA ELSE NameB

\* C1: an archive of one valid file entry, whose name is not on disk, followed by
\* stored data chunks with correct checksums is extracted to a file of that name
\* holding the payloads in stream order, whether a payload takes one read
\* (BLOCK_SIZE - 1 bytes) or several (BLOCK_SIZE + 1 bytes); every other file is
\* left as it was, and the run fails only if the name cannot be allocated.
C1_StoredExtraction ==
  (runs = 1 /\ StoredPlan(plan) /\ ~Exists(disk0, NameOf(plan[1]))) =>
    /\ pc = "returned" =>
         /\ retval = 0
         /\ disk = [n \in DOMAIN disk0 |->
                      IF n = NameOf(plan[1]) THEN File(PlanPayload(Tail(plan)))
                      ELSE disk0[n]]
    /\ pc = "aborted" => hist = "entry_oom"

C1_Witness ==
  /\ runs = 1
  /\ pc = "returned"
  /\ plan = <<"Ea", "Sm", "Sp">>
  /\ ~Exists(disk0, NameA)
  /\ Len(disk[NameA].data) = 2 * BLOCK_SIZE
  /\ disk[NameA].data = Data(BLOCK_SIZE - 1) \o Data(BLOCK_SIZE + 1)

\* The bytes of the payload of the current chunk that the stream holds, and whether
\* all chunk_size of them are there.
PayloadInStream == fread(archive, pos + 16, chunk_size)

PayloadComplete == Len(PayloadInStream) = chunk_size

\* C2: when a file-entry chunk (id 1, 10 < size < BLOCK_SIZE) has a payload whose
\* Adler-32 differs from the checksum of its header, the run stops there and
\* returns failure, and that step creates, opens and writes no output file.
C2_EntryMismatchFatal ==
  [][(pc = "dispatch" /\ IsFileEntry /\ Adler(PayloadInStream) # chunk_checksum)
       => (pc' = "returned" /\ retval' = -1 /\ f' = NULL /\ disk' = disk)]_vars

\* A run ended by abort() or by a crash although every allocation succeeded.
AllocationFailed ==
  \/ hist = "entry_oom"
  \/ hist = "comp_abort_in" /\ chunk_size > 0
  \/ hist = "comp_crash"

\* The per-chunk checks of C3 on the data chunk being dispatched; the payload is
\* all in the stream.
StoredMismatch ==
  /\ pc = "copy" /\ StoredBlock = <<>>
  /\ PayloadComplete /\ Adler(PayloadInStream) # chunk_checksum

CompressedMismatch ==
  /\ pc = "dispatch" /\ IsFileData /\ chunk_options = 1
  /\ PayloadComplete /\ Adler(PayloadInStream) # chunk_checksum

UnknownOptions == pc = "dispatch" /\ IsFileData /\ chunk_options \notin {0, 1}

\* C3: a data chunk of the open session that fails a per-chunk check (stored or
\* compressed checksum mismatch, decompressed length different from extra, unknown
\* options) only abandons the current output: the output is closed, the loop
\* continues with the next chunk unless an allocation failed, and no later chunk of
\* the run writes to an abandoned file.
C3_AbandonOnly ==
  [][/\ (StoredMismatch \/ CompressedMismatch \/ UnknownOptions)
          => \/ pc' = "loop" /\ f' = NULL /\ output_file' = NULL /\ disk' = disk
             \/ AllocationFailed'
     /\ hist' = "comp_mismatch" => pc' = "loop" /\ f' = NULL /\ disk' = disk
     /\ runs' = runs => \A n \in dropped : disk'[n] = disk[n]]_vars

\* The archive ends with a chunk record, not with the first bytes of a header.
WholeHeaders(p) == \A i \in 1..Len(p) : ~Desc(p[i]).raw

\* C4: running unpack_file a second time on the same archive after a successful
\* first run modifies no file and, when the second run returns, it returns success
\* (stated for the archives that do not end inside a chunk header).
C4_RerunIdempotent ==
  (runs = 2 /\ prev = 0 /\ plan \in Plans /\ WholeHeaders(plan)) =>
     /\ disk = disk0
     /\ pc = "returned" => retval = 0

\* C5: a run ends in failure (a failure return value, or an abort of the process)
\* only after a structural violation: the archive cannot be opened, the magic is
\* bad, a file-entry checksum mismatches, or a memory allocation failed.
C5_FailureOnlyStructural ==
  (pc = "aborted" \/ (pc = "returned" /\ retval # 0)) =>
     \/ hist \in {"no_archive", "bad_magic", "entry_fatal"}
     \/ AllocationFailed

\* C6: after every loop iteration that does not end the run, the stream position
\* is pos + 16 + size, pos being the offset of the header just decoded and size its
\* size field, whatever the chunk was and however many payload bytes were read.
C6_NextHeaderPosition ==
  (pc = "loop" /\ pos # NoValue) => in_pos = pos + 16 + chunk_size

\* An iteration over a stored chunk cut short by the end of the archive: it read
\* fewer payload bytes than size, failed the checksum, and still seeks past size.
C6_Witness ==
  /\ pc = "loop"
  /\ hist = "stored_bad"
  /\ plan[Len(plan)] = "St"
  /\ Len(PayloadInStream) < chunk_size
  /\ in_pos = pos + 16 + chunk_size
  /\ in_pos > fsize

\* C7: the main loop terminates on every archive: the offset of the header read by
\* an iteration is at least 16 above the offset of the previous one, a pass of
\* the stored copy loop that reads bytes lowers the remaining count and the pass
\* whose read returns nothing leaves the loop, and every run that starts reaches
\* the end of unpack_file (return or abort).
C7_Terminates ==
  /\ [][/\ (pc = "loop" /\ pc' = "dispatch" /\ pos # NoValue) => pos' >= pos + 16
        /\ (pc = "copy" /\ pc' = "copy") => remaining' < remaining
        /\ (pc = "copy" /\ StoredBlock = <<>>) => pc' = "loop"]_vars
  /\ (pc = "start") ~> (pc \in {"returned", "aborted"})

\* A run over two chunks, the second a stored chunk of several reads, that ended.
C7_Witness ==
  /\ pc = "returned"
  /\ hist = "finish"
  /\ Len(plan) >= 2
  /\ plan[Len(plan)] = "Sp"
  /\ f # NULL => Len(disk[f].data) > BLOCK_SIZE
  /\ pos >= 8 + 2 * 16

\* C8: when 1 to 15 bytes remain in the stream where a chunk header is due, the
\* driver treats this as the end of the archive: no header field is decoded, no
\* chunk is dispatched, nothing is written and the run ends normally.
C8_ShortHeaderIsEnd ==
  [][(pc = "loop" /\ in_pos < fsize /\ fsize - in_pos < 16)
       => /\ pc' = "returned" /\ retval' = 0
          /\ disk' = disk
          /\ UNCHANGED <<chunk_id, chunk_options, chunk_size, chunk_checksum,
                         chunk_extra>>]_vars

\* C9: detect_magic returns non-zero exactly when the stream holds at least 8
\* bytes and its first 8 bytes are the signature; in every case the stream is at
\* its start after the call (where it was, for a call made at the start).
C9_DetectMagic ==
  probe.stage = "out" =>
    /\ probe.ret # 0 <=> /\ Len(probe.stream) >= 8
                         /\ SubSeq(probe.stream, 1, 8) = sixpack_magic
    /\ probe.pos = 0
    /\ probe.p = 0 => probe.pos = probe.p

\* The signature followed by more bytes is accepted; the last byte changed is not.
C9_Witness ==
  /\ probe.stage = "out"
  /\ probe.stream = sixpack_magic \o <<1, 0>>
  /\ probe.p = 0
  /\ probe.ret # 0
  /\ probe.pos = 0

\* C10: a header {id, options, size, checksum, extra} encoded as 16 little-endian
\* bytes (id at 0..1, options at 2..3, size at 4..7, checksum at 8..11, extra at
\* 12..15) is decoded by read_chunk_header to the same tuple, also when the top
\* bit of a field is set.
C10_HeaderRoundTrip ==
  probe.stage = "out" => probe.decoded = probe.header

\* Every field has its top bit set.
C10_Witness ==
  /\ probe.stage = "out"
  /\ probe.header.id = 65535
  /\ probe.header.options = 65535
  /\ probe.header.size = U32(0, 32768)
  /\ probe.header.checksum = U32(65535, 65535)
  /\ probe.header.extra = U32(48879, 57005)
  /\ probe.decoded = probe.header

\* The sum of w(i) * buf[i] over lo..hi, by halving the range; w(i) is 1 for the
\* plain sum and the number of bytes from i to the end for the sum of prefix sums.
RECURSIVE Sigma(_, _, _, _)
Sigma(buf, lo, hi, weighted) ==
  IF lo > hi THEN 0
  ELSE IF lo = hi THEN (IF weighted THEN Len(buf) - lo + 1 ELSE 1) * buf[lo]
  ELSE Sigma(buf, lo, (lo + hi) \div 2, weighted)
         + Sigma(buf, (lo + hi) \div 2 + 1, hi, weighted)

\* Adler-32 by its definition: s1 = 1 + the bytes, s2 = the sum of the successive
\* s1, both mod 65521.
AdlerS1(buf) == (1 + Sigma(buf, 1, Len(buf), FALSE)) % ADLER32_BASE

AdlerS2(buf) == (Len(buf) + Sigma(buf, 1, Len(buf), TRUE)) % ADLER32_BASE

\* C11: update_adler32(1, empty) is 1; summing a sequence in two calls, on a part
\* A and then on the rest B, gives what one call on the whole sequence gives; and
\* the value is (s2 << 16) | s1 with s1 = (1 + the sum of the bytes) mod 65521 and
\* s2 = the sum of the successive s1 mod 65521.
C11_AdlerIncremental ==
  probe.stage = "out" =>
    /\ probe.second = probe.whole
    /\ probe.whole = <<AdlerS1(probe.buf), AdlerS2(probe.buf), 0, 0>>
    /\ probe.buf = <<>> => probe.whole = ULFromInt(1)

\* 300 bytes of 255, cut after 100: both sums have passed 65521.
C11_Witness ==
  /\ probe.stage = "out"
  /\ probe.buf = Fill(300, 255)
  /\ probe.cut = 100
  /\ probe.first # probe.whole
  /\ probe.second = probe.whole
  /\ probe.whole[1] = 1 + 300 * 255 - ADLER32_BASE

\* The bytes a step appended to the open output file.
Appended ==
  IF f = NULL THEN <<>>
  ELSE SubSeq(disk'[f].data, Len(disk[f].data) + 1, Len(disk'[f].data))

\* C12: a compressed data chunk of the open session writes to the output file only
\* if the checksum of its payload equals the checksum of its header and the
\* primitive returned exactly extra; the bytes written are then the extra bytes
\* of decompressed output, and otherwise the chunk writes nothing.
C12_CompressedWrite ==
  [][(pc = "dispatch" /\ IsFileData /\ chunk_options = 1) =>
       /\ \A n \in DOMAIN disk : n # f => disk'[n] = disk[n]
       /\ disk'[f].there
       /\ SubSeq(disk'[f].data, 1, Len(disk[f].data)) = disk[f].data
       /\ IF Adler(PayloadInStream) = chunk_checksum /\ hist' = "comp_ok"
          THEN /\ remaining' = chunk_extra
               /\ Appended = SubSeq(decompressed_buffer', 1, chunk_extra)
               /\ \A i \in 1..chunk_extra :
                    Appended[i] = DecodedByte(PayloadInStream, i)
          ELSE Appended = <<>>]_vars

\* C13: no output file is left open when the run ends, whether it ends normally,
\* after abandoning files, or on a fatal path (failure return or abort); f is the
\* one output handle of the run, closed before a file entry opens the next one.
C13_NoOutputLeftOpen ==
  pc \in {"returned", "aborted"} => f = NULL

\* The run ended on a fatal error inside the chunk loop.
FatalInLoop ==
  \/ pc = "returned" /\ hist = "entry_fatal"
  \/ pc = "aborted"

\* C14: when the run ends on a fatal error inside the chunk loop (file-entry
\* checksum mismatch, allocation failure), the compressed and decompressed
\* buffers, the output name and the archive and output handles are all released.
C14_FatalReleasesAll ==
  FatalInLoop =>
    /\ compressed_buffer = NULL
    /\ decompressed_buffer = NULL
    /\ output_file = NULL
    /\ f = NULL
    /\ ~in_open

Max(a, b) == IF a > b THEN a ELSE b

\* The compressed branch got as far as reading the payload.
PayloadWasRead ==
  hist \in {"comp_bad", "comp_crash", "comp_mismatch", "comp_abort_out", "comp_ok"}

PrimitiveWasInvoked ==
  hist \in {"comp_crash", "comp_mismatch", "comp_abort_out", "comp_ok"}

\* C16: a buffer whose allocation failed (it is NULL while its capacity is
\* positive) is never used: the payload is not read into such a compressed
\* buffer, and fastlz_decompress is not invoked with such a compressed or
\* decompressed buffer, in the chunk of the failure or in a later one.
C16_NoUseOfUnallocated ==
  /\ PayloadWasRead => ~(compressed_buffer = NULL /\ compressed_bufsize > 0)
  /\ PrimitiveWasInvoked => ~(decompressed_buffer = NULL /\ decompressed_bufsize > 0)

\* C17: when the payload of a file-entry chunk or of a compressed chunk is read,
\* the checksum that is compared with the header's is the Adler-32 of exactly
\* the bytes the stream delivered for the chunk, and the bytes that are parsed
\* as the file entry, resp. handed to fastlz_decompress (the first chunk_size
\* bytes of the buffer), are those bytes and no others.
C17_ChecksumOverBytesRead ==
  [][/\ (pc = "dispatch" /\ IsFileEntry) =>
          /\ checksum' = Adler(PayloadInStream)
          /\ SubSeq(buffer', 1, chunk_size) = PayloadInStream
     /\ (pc = "dispatch" /\ IsFileData /\ chunk_options = 1 /\ PayloadWasRead') =>
          /\ checksum' = Adler(PayloadInStream)
          /\ SubSeq(compressed_buffer', 1, chunk_size) = PayloadInStream]_vars

\* The chunk in the header variables matches neither dispatch guard.
MatchesNoGuard ==
  \/ chunk_id \notin {1, 17}
  \/ chunk_id = 1 /\ (chunk_size <= 10 \/ chunk_size >= BLOCK_SIZE)
  \/ chunk_id = 17 /\ (f = NULL \/ decompressed_size = ULZero)

\* C18: a chunk that matches neither dispatch guard changes nothing but the
\* stream position, which moves to the next chunk: the output handle, its name,
\* every file, total_extracted, decompressed_size, the block buffer and both
\* buffers with their capacities are as before.
C18_IgnoredIsNoOp ==
  [][(pc = "dispatch" /\ MatchesNoGuard) =>
       /\ UNCHANGED <<f, output_file, disk, total_extracted, decompressed_size,
                      buffer, compressed_buffer, decompressed_buffer,
                      compressed_bufsize, decompressed_bufsize, in_open, retval>>
       /\ in_pos' = pos + 16 + chunk_size
       /\ pc' = "loop"]_vars

\* A data chunk was skipped while an output was open whose declared size is 0.
C18_Witness ==
  /\ hist = "ignored"
  /\ chunk_id = 17
  /\ chunk_size = 2
  /\ f = NameB
  /\ decompressed_size = ULZero
  /\ disk[NameB] = File(<<>>)
  /\ in_pos = pos + 16 + chunk_size

\* The chunk in the header variables is a file entry whose payload is in the
\* stream and has the checksum of the header.
ValidFileEntry ==
  /\ pc = "dispatch"
  /\ IsFileEntry
  /\ PayloadComplete
  /\ Adler(PayloadInStream) = chunk_checksum

\* The name a file entry's payload p declares: the bytes from offset 10 on, as
\* many as the u16 at offset 8 says and at most those of the chunk, as a C string.
DeclaredName(p) ==
  CString(SubSeq(p, 11, 10 + Min(p[9] + 256 * p[10], Len(p) - 10)))

\* C19: for a valid file-entry chunk whose name can be allocated, the output name
\* is the payload bytes from offset 10 on, min(name_length, size - 10) of them,
\* with name_length the little-endian u16 at offset 8; a name_length that overruns
\* the chunk is no error: the entry is processed with the clamped name, and the
\* file that is looked up and created is the one of that name.
C19_NameClamped ==
  [][(ValidFileEntry /\ hist' # "entry_oom") =>
       /\ hist' \in {"entry_created", "entry_exists", "entry_nocreate"}
       /\ pc' = "loop"
       /\ hist' = "entry_created" =>
            /\ output_file' = DeclaredName(PayloadInStream)
            /\ f' = DeclaredName(PayloadInStream)
            /\ ~Exists(disk, DeclaredName(PayloadInStream))
            /\ disk' = Create(disk, DeclaredName(PayloadInStream))
       /\ hist' = "entry_exists" =>
            Exists(disk, DeclaredName(PayloadInStream)) /\ disk' = disk
       /\ hist' = "entry_nocreate" =>
            DeclaredName(PayloadInStream) = <<>> /\ disk' = disk]_vars

\* An entry with name_length 9 in a chunk of 11 bytes created the file named by
\* its one name byte, while the byte after the chunk in the buffer is not 0.
C19_Witness ==
  /\ hist = "entry_created"
  /\ chunk_size = 11
  /\ buffer[9] + 256 * buffer[10] = 9
  /\ buffer[12] # 0
  /\ output_file = NameB
  /\ disk[NameB] = File(<<>>)

\* C20: for the seed 1 or a returned checksum and any input, s1 and s2 stay
\* below 2^32 at every point between the reductions, and the value returned is
\* the Adler-32 of RFC 1950 continued from the seed (sums modulo 65521 computed
\* without any overflow); on the short inputs it is the value of update_adler32UL.
C20_NoOverflow ==
  /\ probe.acc[1] \div 65536 < 65536
  /\ probe.acc[3] < 65536
  /\ probe.stage = "out" =>
       /\ probe.ptr = probe.n
       /\ probe.n > 0 => probe.result = <<probe.ref[1], probe.ref[2], 0, 0>>
       /\ probe.n = 0 => probe.result = probe.seed
       /\ probe.n <= 20 =>
            probe.result = update_adler32UL(probe.seed, PatBuf(probe.pat, probe.n), probe.n)

\* 5552 bytes of 255 were added to the largest seed and more input follows:
\* before the reduction s2 is 65531 * 65536 + 50584, 277096 below 2^32.
C20_Witness ==
  /\ probe.stage = "add"
  /\ probe.k = 0
  /\ probe.ptr = ADLER32_NMAX
  /\ probe.len > 0
  /\ probe.pat = "max"
  /\ probe.acc = <<65520 + 5552 * 255, 50584, 65531>>

\* C21: while the output file of a file entry is open, the bytes written to it
\* are at most the decompressed_size the entry declared.
C21_WrittenWithinDeclared ==
  f # NULL => Len(disk[f].data) <= ULVal(decompressed_size)

====
